---- MODULE Spec2Model ----
(***************************************************************************)
(* pypyt: rendering of values into the named shapes of a presentation.     *)
(*                                                                         *)
(* The presentation is the python-pptx object tree as pypyt reads and      *)
(* writes it: slides -> shapes -> (text_frame | table | chart), a text     *)
(* frame is a sequence of paragraphs, a paragraph a sequence of runs and   *)
(* paragraph.text the concatenation of its runs' text.  Text is a sequence *)
(* of one-character strings, so that the regular expression and            *)
(* str.format of render_paragraph are computed character by character.     *)
(*                                                                         *)
(* Python values are tagged records:                                       *)
(*   [type |-> "str", s |-> Text]         [type |-> "int", n |-> Nat]      *)
(*   [type |-> "None"]                                                     *)
(*   [type |-> "list", v |-> sequence of values]                           *)
(*   [type |-> "dict", items |-> sequence of [k |-> Text, v |-> value]]    *)
(*        (insertion ordered, keys unique)                                 *)
(*   [type |-> "DataFrame", columns, values, index, header, title]         *)
(*        (header, title: an attribute set on the frame, or NoAttr)        *)
(* An exception is the name of its class in the err field of a result;     *)
(* "none" is a normal return.                                              *)
(***************************************************************************)
EXTENDS Integers, Sequences, FiniteSets, TLC

VARIABLES
    prs,    \* the presentation, mutated in place by the render functions
    prs0,   \* the presentation as it was opened (before the call)
    call,   \* the call made on it: [op |-> ..., arguments]
    ret     \* what the call returned: [err |-> exception or "none", value]

vars == <<prs, prs0, call, ret>>

----------------------------------------------------------------------------
(* Python values                                                           *)

PyStr(s) == [type |-> "str", s |-> s]
PyInt(n) == [type |-> "int", n |-> n]
PyNone == [type |-> "None"]
PyBool(b) == [type |-> "bool", b |-> b]
PyList(v) == [type |-> "list", v |-> v]
PyDict(items) == [type |-> "dict", items |-> items]

NoAttr == [type |-> "no attribute"]

Digit(d) == <<"0", "1", "2", "3", "4", "5", "6", "7", "8", "9">>[d + 1]

RECURSIVE IntToText(_)
IntToText(n) ==
    IF n < 10 THEN <<Digit(n)>> ELSE IntToText(n \div 10) \o <<Digit(n % 10)>>

\* str(x) of a str or an int (what format() and str() write for them)
Str(x) ==
    IF x.type = "str" THEN x.s
    ELSE IF x.type = "int" THEN IntToText(x.n)
    ELSE <<"N", "o", "n", "e">>

\* d[k], k in d, for a dict
RECURSIVE DictIndex(_, _, _)
DictIndex(items, k, i) ==
    IF i > Len(items) THEN 0
    ELSE IF items[i].k = k THEN i
    ELSE DictIndex(items, k, i + 1)

DictHas(d, k) == DictIndex(d.items, k, 1) > 0
DictGet(d, k) == d.items[DictIndex(d.items, k, 1)].v

----------------------------------------------------------------------------
(* re.findall(r"\{(\w+)\}", text)                                          *)

Letters == {"a", "b", "c", "d", "e", "f", "g", "h", "i", "j", "k", "l", "m",
            "n", "o", "p", "q", "r", "s", "t", "u", "v", "w", "x", "y", "z",
            "A", "B", "C", "D", "E", "F", "G", "H", "I", "J", "K", "L", "M",
            "N", "O", "P", "Q", "R", "S", "T", "U", "V", "W", "X", "Y", "Z"}
Digits == {"0", "1", "2", "3", "4", "5", "6", "7", "8", "9"}

\* \w
IsWordChar(c) == c \in Letters \cup Digits \cup {"_"}

\* the first position >= i of text that holds no word character (Len+1 if none)
RECURSIVE WordEnd(_, _)
WordEnd(text, i) ==
    IF i > Len(text) \/ ~IsWordChar(text[i]) THEN i ELSE WordEnd(text, i + 1)

\* the position of the closing brace of a match of \{\w+\} starting at i, or 0
MatchEnd(text, i) ==
    IF text[i] = "{"
    THEN LET j == WordEnd(text, i + 1)
         IN  IF j > i + 1 /\ j <= Len(text) /\ text[j] = "}" THEN j ELSE 0
    ELSE 0

\* the captured groups of the non-overlapping matches, scanning from i
RECURSIVE FindAllFrom(_, _)
FindAllFrom(text, i) ==
    IF i > Len(text) THEN << >>
    ELSE LET e == MatchEnd(text, i)
         IN  IF e > 0
             THEN <<SubSeq(text, i + 1, e - 1)>> \o FindAllFrom(text, e + 1)
             ELSE FindAllFrom(text, i + 1)

FindAll(text) == FindAllFrom(text, 1)

----------------------------------------------------------------------------
(* str.format with keyword arguments: CPython's MarkupIterator over a     *)
(* text without ':' '!' '.' '[' (no conversion, spec, attribute, index).   *)

\* the first position >= i of text that holds a brace (Len+1 if none)
RECURSIVE BraceAt(_, _)
BraceAt(text, i) ==
    IF i > Len(text) \/ text[i] \in {"{", "}"} THEN i ELSE BraceAt(text, i + 1)

IsInteger(name) == \A i \in 1..Len(name) : name[i] \in Digits

\* the object a replacement field names, formatted: an empty or all-digit
\* name is a positional index (there are no positional arguments), any other
\* name is a key of kwargs
Field(name, kwargs) ==
    IF name = << >> \/ IsInteger(name) THEN [s |-> << >>, err |-> "IndexError"]
    ELSE IF ~DictHas(kwargs, name) THEN [s |-> << >>, err |-> "KeyError"]
    ELSE [s |-> Str(DictGet(kwargs, name)), err |-> "none"]

FormatError(e) == [s |-> << >>, err |-> e]

RECURSIVE FormatFrom(_, _, _)
\* prepend literal text to the rest of the output, unless the rest failed
FormatThen(lit, text, i, kwargs) ==
    LET rest == FormatFrom(text, i, kwargs)
    IN  IF rest.err # "none" THEN rest ELSE [s |-> lit \o rest.s, err |-> "none"]

FormatFrom(text, i, kwargs) ==
    IF i > Len(text) THEN [s |-> << >>, err |-> "none"]
    ELSE IF text[i] = "}"
    THEN IF i = Len(text) \/ text[i + 1] # "}"
         THEN FormatError("ValueError")      \* Single '}' encountered
         ELSE FormatThen(<<"}">>, text, i + 2, kwargs)
    ELSE IF text[i] = "{"
    THEN IF i = Len(text)
         THEN FormatError("ValueError")      \* Single '{' encountered
         ELSE IF text[i + 1] = "{"
         THEN FormatThen(<<"{">>, text, i + 2, kwargs)
         ELSE LET j == BraceAt(text, i + 1)
              IN  IF j > Len(text)
                  THEN FormatError("ValueError")   \* expected '}' before end
                  ELSE IF text[j] = "{"
                  THEN FormatError("ValueError")   \* unexpected '{' in field name
                  ELSE LET f == Field(SubSeq(text, i + 1, j - 1), kwargs)
                       IN  IF f.err # "none" THEN f
                           ELSE FormatThen(f.s, text, j + 1, kwargs)
    ELSE FormatThen(<<text[i]>>, text, i + 1, kwargs)

Format(text, kwargs) == FormatFrom(text, 1, kwargs)

----------------------------------------------------------------------------
(* Text frames: render_paragraph                                           *)

Min(a, b) == IF a < b THEN a ELSE b

RECURSIVE Concat(_)
Concat(texts) == IF texts = << >> THEN << >> ELSE Head(texts) \o Concat(Tail(texts))

\* paragraph.text (read): the text of the runs, joined
ParagraphText(paragraph) ==
    Concat([i \in 1..Len(paragraph.runs) |-> paragraph.runs[i].text])

\* no run is removed
KeepRuns(paragraph) == paragraph

\* for idx, run in enumerate(paragraph.runs): if idx == 0: continue; p.remove(run._r)
PruneRuns(paragraph) ==
    [paragraph EXCEPT !.runs = IF Len(@) = 0 THEN @ ELSE <<Head(@)>>]

\* try: paragraph.runs[0].text = values; except IndexError: paragraph.text = values
\* on the pruned paragraph.  Both setters take a str and raise TypeError on
\* any other object; paragraph.text = x replaces the content by one new run.
SetText(pruned, values) ==
    IF values.type # "str" THEN [paragraph |-> pruned, err |-> "TypeError"]
    ELSE IF Len(pruned.runs) > 0
    THEN [paragraph |-> [pruned EXCEPT !.runs[1].text = values.s], err |-> "none"]
    ELSE [paragraph |-> [pruned EXCEPT !.runs = <<[text |-> values.s, rPr |-> "new"]>>],
          err |-> "none"]

\* the text frame with its first paragraph as written
WithFirstParagraph(text_frame, r) ==
    [text_frame |-> [text_frame EXCEPT !.paragraphs[1] = r.paragraph], err |-> r.err]

\* the scalar variant: the first paragraph becomes its first run, holding values
render_paragraph_default(values, text_frame) ==
    IF Len(text_frame.paragraphs) = 0
    THEN [text_frame |-> text_frame, err |-> "IndexError"]
    ELSE WithFirstParagraph(text_frame,
                            SetText(PruneRuns(text_frame.paragraphs[1]), values))

\* the first of the keywords that is no key of values, as values[k] meets it (0: none)
RECURSIVE MissingKey(_, _, _)
MissingKey(values, keywords, i) ==
    IF i > Len(keywords) THEN 0
    ELSE IF ~DictHas(values, keywords[i]) THEN i
    ELSE MissingKey(values, keywords, i + 1)

\* {k: values[k] for k in keywords}
Kwargs(values, keywords) ==
    PyDict([i \in 1..Len(keywords) |->
                [k |-> keywords[i], v |-> DictGet(values, keywords[i])]])

\* paragraph.runs[0].text = new_text, on the pruned paragraph
SetFirstRun(pruned, new_text) ==
    IF Len(pruned.runs) = 0 THEN [paragraph |-> pruned, err |-> "IndexError"]
    ELSE [paragraph |-> [pruned EXCEPT !.runs[1].text = new_text], err |-> "none"]

\* the paragraph once new_text is formatted: nothing is written if format raised
WriteFormatted(paragraph, new_text) ==
    IF new_text.err # "none" THEN [paragraph |-> paragraph, err |-> new_text.err]
    ELSE SetFirstRun(PruneRuns(paragraph), new_text.s)

\* the runs are removed before the keywords are looked up
RenderKeywordsOfPruneFirst(values, paragraph, new_text_template, keywords) ==
    IF keywords = << >> THEN [paragraph |-> paragraph, err |-> "none"]
    ELSE IF MissingKey(values, keywords, 1) > 0
    THEN [paragraph |-> PruneRuns(paragraph), err |-> "KeyError"]
    ELSE WriteFormatted(paragraph, Format(new_text_template, Kwargs(values, keywords)))

\* every paragraph is formatted, with or without keywords
RenderKeywordsOfAlways(values, paragraph, new_text_template, keywords) ==
    IF MissingKey(values, keywords, 1) > 0
    THEN [paragraph |-> paragraph, err |-> "KeyError"]
    ELSE WriteFormatted(paragraph, Format(new_text_template, Kwargs(values, keywords)))

\* if keywords: new_text = new_text_template.format(...); ...
RenderKeywordsOf(values, paragraph, new_text_template, keywords) ==
    IF keywords = << >> THEN [paragraph |-> paragraph, err |-> "none"]
    ELSE IF MissingKey(values, keywords, 1) > 0
    THEN [paragraph |-> paragraph, err |-> "KeyError"]
    ELSE WriteFormatted(paragraph, Format(new_text_template, Kwargs(values, keywords)))

\* keywords = re.findall(r"\{(\w+)\}", new_text_template)
RenderKeywordsIn(values, paragraph, new_text_template) ==
    RenderKeywordsOf(values, paragraph, new_text_template, FindAll(new_text_template))

\* the body of the loop of the dict variant, for one paragraph
RenderKeywords(values, paragraph) ==
    RenderKeywordsIn(values, paragraph, ParagraphText(paragraph))

\* for paragraph in text_frame.paragraphs: ... from paragraph i on; an exception
\* leaves the loop with the paragraphs before i already written
RECURSIVE RenderParagraphsFrom(_, _, _)
RenderParagraphsStep(values, paragraphs, i, r) ==
    IF r.err # "none"
    THEN [paragraphs |-> [paragraphs EXCEPT ![i] = r.paragraph], err |-> r.err]
    ELSE RenderParagraphsFrom(values, [paragraphs EXCEPT ![i] = r.paragraph], i + 1)

RenderParagraphsFrom(values, paragraphs, i) ==
    IF i > Len(paragraphs) THEN [paragraphs |-> paragraphs, err |-> "none"]
    ELSE RenderParagraphsStep(values, paragraphs, i,
                              RenderKeywords(values, paragraphs[i]))

\* the text frame with its paragraphs as written
WithParagraphs(text_frame, r) ==
    [text_frame |-> [text_frame EXCEPT !.paragraphs = r.paragraphs], err |-> r.err]

\* the dict variant: {keyword} placeholders within every paragraph
render_paragraph_dict(values, text_frame) ==
    WithParagraphs(text_frame, RenderParagraphsFrom(values, text_frame.paragraphs, 1))

\* functools.singledispatch on the type of values
render_paragraph(values, text_frame) ==
    IF values.type = "dict" THEN render_paragraph_dict(values, text_frame)
    ELSE render_paragraph_default(values, text_frame)

----------------------------------------------------------------------------
(* Tables: render_table                                                    *)

\* for value, cell in zip(vals, cells): render_paragraph(value, cell.text_frame),
\* from position k on
RECURSIVE RenderCellsFrom(_, _, _)
RenderCellsStep(vals, cells, k, r) ==
    IF r.err # "none"
    THEN [cells |-> [cells EXCEPT ![k].text_frame = r.text_frame], err |-> r.err]
    ELSE RenderCellsFrom(vals, [cells EXCEPT ![k].text_frame = r.text_frame], k + 1)

RenderCellsFrom(vals, cells, k) ==
    IF k > Min(Len(vals), Len(cells)) THEN [cells |-> cells, err |-> "none"]
    ELSE RenderCellsStep(vals, cells, k, render_paragraph(vals[k], cells[k].text_frame))

\* iter(x) of a value: the elements of a list, the characters of a str, the keys
\* of a dict; any other object is not iterable
Iterate(x) ==
    IF x.type = "list" THEN [seq |-> x.v, err |-> "none"]
    ELSE IF x.type = "str"
    THEN [seq |-> [i \in 1..Len(x.s) |-> PyStr(<<x.s[i]>>)], err |-> "none"]
    ELSE IF x.type = "dict"
    THEN [seq |-> [i \in 1..Len(x.items) |-> PyStr(x.items[i].k)], err |-> "none"]
    ELSE [seq |-> << >>, err |-> "TypeError"]

\* for values_row, table_row in zip(value_rows, rows[first..]):
\*     for values_cell, table_cell in zip(values_row, table_row.cells): ...
\* value row k goes to table row first + k - 1
RECURSIVE RenderRowsFrom(_, _, _, _)
RenderRowsStep(value_rows, rows, first, k, r) ==
    IF r.err # "none"
    THEN [rows |-> [rows EXCEPT ![first + k - 1].cells = r.cells], err |-> r.err]
    ELSE RenderRowsFrom(value_rows, [rows EXCEPT ![first + k - 1].cells = r.cells],
                        first, k + 1)

\* zip(values_row, table_row.cells) raises if values_row is not iterable
RenderRow(value_rows, rows, first, k, it) ==
    IF it.err # "none" THEN [rows |-> rows, err |-> it.err]
    ELSE RenderRowsStep(value_rows, rows, first, k,
                        RenderCellsFrom(it.seq, rows[first + k - 1].cells, 1))

RenderRowsFrom(value_rows, rows, first, k) ==
    IF k > Min(Len(value_rows), Len(rows) - first + 1)
    THEN [rows |-> rows, err |-> "none"]
    ELSE RenderRow(value_rows, rows, first, k, Iterate(value_rows[k]))

\* the table with its rows as written
WithRows(table, r) == [table |-> [table EXCEPT !.rows = r.rows], err |-> r.err]

\* the dict variant: render_paragraph(values, cell.text_frame) for each cell
render_table_dict(values, table) ==
    WithRows(table,
             RenderRowsFrom([i \in 1..Len(table.rows) |->
                                PyList([j \in 1..Len(table.rows[i].cells) |-> values])],
                            table.rows, 1, 1))

\* [str(x) for x in xs]
StrAll(xs) == [i \in 1..Len(xs) |-> PyStr(Str(xs[i]))]

\* hasattr(values, 'header') and values.header
HeaderTruthy(values) ==
    values.header # NoAttr /\ values.header.type = "bool" /\ values.header.b

\* list(values.values), every cell through str()
DataRows(values) == [i \in 1..Len(values.values) |-> PyList(StrAll(values.values[i]))]

\* a variant that starts the data rows at the first row of the table, over the
\* header row
RenderDataFromFirst(values, table, h) ==
    IF h.err # "none"
    THEN [table |-> [table EXCEPT !.rows[1].cells = h.cells], err |-> h.err]
    ELSE WithRows(table,
                  RenderRowsFrom(DataRows(values),
                                 [table.rows EXCEPT ![1].cells = h.cells], 1, 1))

\* the data rows after the header row h: the loop over the data rows starts
\* at the second row of the table
RenderDataAfter(values, table, h) ==
    IF h.err # "none"
    THEN [table |-> [table EXCEPT !.rows[1].cells = h.cells], err |-> h.err]
    ELSE WithRows(table,
                  RenderRowsFrom(DataRows(values),
                                 [table.rows EXCEPT ![1].cells = h.cells], 2, 1))

\* the DataFrame variant: an optional header row of column labels, then the
\* data rows
render_table_DataFrame(values, table) ==
    IF HeaderTruthy(values)
    THEN IF Len(table.rows) = 0
         THEN [table |-> table, err |-> "StopIteration"]    \* next(table_rows)
         ELSE RenderDataAfter(values, table,
                              RenderCellsFrom(StrAll(values.columns),
                                              table.rows[1].cells, 1))
    ELSE WithRows(table, RenderRowsFrom(DataRows(values), table.rows, 1, 1))

\* the list variant: values[i][j] into the cell of row i, column j
render_table_list(values, table) ==
    WithRows(table, RenderRowsFrom(values.v, table.rows, 1, 1))

\* functools.singledispatch on the type of values
render_table(values, table) ==
    IF values.type = "dict" THEN render_table_dict(values, table)
    ELSE IF values.type = "DataFrame" THEN render_table_DataFrame(values, table)
    ELSE IF values.type = "list" THEN render_table_list(values, table)
    ELSE [table |-> table, err |-> "NotImplementedError"]

----------------------------------------------------------------------------
(* Charts: render_chart                                                    *)

KeyCategories == <<"c", "a", "t", "e", "g", "o", "r", "i", "e", "s">>
KeyData == <<"d", "a", "t", "a">>
KeyTitle == <<"t", "i", "t", "l", "e">>

\* chart_data.add_series(label, series) for label, series in data.items()
SeriesOfDict(data) ==
    [i \in 1..Len(data.items) |->
        [name |-> PyStr(data.items[i].k),
         values |-> PyList(Iterate(data.items[i].v).seq)]]

\* chart_data.categories = labels: one category per element of the labels
CategoriesOf(it) == PyList(it.seq)

\* some series of the data is not iterable: add_series raises on it
BadSeries(data) ==
    \E i \in 1..Len(data.items) : Iterate(data.items[i].v).err # "none"

\* chart.replace_data(chart_data) after the title, if any, has been written
ReplaceData(chart, categories, series, title) ==
    [chart |-> [categories |-> categories, series |-> series, title |-> title],
     err |-> "none"]

\* a variant that blanks the title of the chart when the mapping has none
RenderChartDictBlankTitle(values, chart) ==
    IF ~DictHas(values, KeyCategories) THEN [chart |-> chart, err |-> "KeyError"]
    ELSE IF Iterate(DictGet(values, KeyCategories)).err # "none"
    THEN [chart |-> chart, err |-> "TypeError"]
    ELSE IF ~DictHas(values, KeyData) THEN [chart |-> chart, err |-> "KeyError"]
    ELSE IF DictGet(values, KeyData).type # "dict"
    THEN [chart |-> chart, err |-> "AttributeError"]
    ELSE IF BadSeries(DictGet(values, KeyData))
    THEN [chart |-> chart, err |-> "TypeError"]
    ELSE ReplaceData(chart,
                     CategoriesOf(Iterate(DictGet(values, KeyCategories))),
                     SeriesOfDict(DictGet(values, KeyData)),
                     IF DictHas(values, KeyTitle) THEN DictGet(values, KeyTitle)
                     ELSE PyStr(<< >>))

\* the dict variant: values['categories'], then values['data'].items(), then
\* the title if the key is there, then replace_data; every error comes before
\* the first write
render_chart_dict(values, chart) ==
    IF ~DictHas(values, KeyCategories) THEN [chart |-> chart, err |-> "KeyError"]
    ELSE IF Iterate(DictGet(values, KeyCategories)).err # "none"
    THEN [chart |-> chart, err |-> "TypeError"]
    ELSE IF ~DictHas(values, KeyData) THEN [chart |-> chart, err |-> "KeyError"]
    ELSE IF DictGet(values, KeyData).type # "dict"
    THEN [chart |-> chart, err |-> "AttributeError"]     \* .items()
    ELSE IF BadSeries(DictGet(values, KeyData))
    THEN [chart |-> chart, err |-> "TypeError"]
    ELSE ReplaceData(chart,
                     CategoriesOf(Iterate(DictGet(values, KeyCategories))),
                     SeriesOfDict(DictGet(values, KeyData)),
                     IF DictHas(values, KeyTitle) THEN DictGet(values, KeyTitle)
                     ELSE chart.title)

\* list(values[label].values): the column of a label, down the rows
Column(values, j) == PyList([i \in 1..Len(values.values) |-> values.values[i][j]])

\* one series per column label, in column order
SeriesOfFrame(values) ==
    [j \in 1..Len(values.columns) |->
        [name |-> values.columns[j], values |-> Column(values, j)]]

\* a variant that never writes the title
RenderChartFrameNoTitle(values, chart) ==
    ReplaceData(chart, PyList(values.index), SeriesOfFrame(values), chart.title)

\* the DataFrame variant: the index gives the categories, every column a
\* series; the title is written if the frame has the attribute
render_chart_DataFrame(values, chart) ==
    ReplaceData(chart, PyList(values.index), SeriesOfFrame(values),
                IF values.title # NoAttr THEN values.title ELSE chart.title)

\* a variant that takes a list as the categories of a chart without series
RenderChartOfList(values, chart) ==
    IF values.type = "dict" THEN render_chart_dict(values, chart)
    ELSE IF values.type = "DataFrame" THEN render_chart_DataFrame(values, chart)
    ELSE IF values.type = "list" THEN ReplaceData(chart, values, << >>, chart.title)
    ELSE [chart |-> chart, err |-> "NotImplementedError"]

\* functools.singledispatch on the type of values
render_chart(values, chart) ==
    IF values.type = "dict" THEN render_chart_dict(values, chart)
    ELSE IF values.type = "DataFrame" THEN render_chart_DataFrame(values, chart)
    ELSE [chart |-> chart, err |-> "NotImplementedError"]

----------------------------------------------------------------------------
(* Shapes and presentations                                                *)

is_chart(shape) == shape.has_chart
is_paragraph(shape) == shape.has_text_frame
is_table(shape) == shape.has_table

\* the positions <<slide, shape>> of the shapes of slide s, from shape i on,
\* that are named name
UpperCase == <<"A", "B", "C", "D", "E", "F", "G", "H", "I", "J", "K", "L", "M",
               "N", "O", "P", "Q", "R", "S", "T", "U", "V", "W", "X", "Y", "Z">>
LowerCase == <<"a", "b", "c", "d", "e", "f", "g", "h", "i", "j", "k", "l", "m",
               "n", "o", "p", "q", "r", "s", "t", "u", "v", "w", "x", "y", "z">>
Lower(text) ==
    [i \in 1..Len(text) |->
        IF \E k \in 1..Len(UpperCase) : UpperCase[k] = text[i]
        THEN LowerCase[CHOOSE k \in 1..Len(UpperCase) : UpperCase[k] = text[i]]
        ELSE text[i]]

\* the match of the name without regard to case
RECURSIVE ShapesOfSlideAnyCase(_, _, _, _)
ShapesOfSlideAnyCase(presentation, name, s, i) ==
    IF i > Len(presentation[s].shapes) THEN << >>
    ELSE (IF Lower(presentation[s].shapes[i].name) = Lower(name)
          THEN << <<s, i>> >> ELSE << >>)
         \o ShapesOfSlideAnyCase(presentation, name, s, i + 1)

RECURSIVE ShapesOfSlide(_, _, _, _)
ShapesOfSlide(presentation, name, s, i) ==
    IF i > Len(presentation[s].shapes) THEN << >>
    ELSE (IF presentation[s].shapes[i].name = name THEN << <<s, i>> >> ELSE << >>)
         \o ShapesOfSlide(presentation, name, s, i + 1)

\* the shapes of every slide, whatever their names
RECURSIVE ShapesFromSlideUnfiltered(_, _, _)
ShapesFromSlideUnfiltered(presentation, name, s) ==
    IF s > Len(presentation) THEN << >>
    ELSE [i \in 1..Len(presentation[s].shapes) |-> <<s, i>>]
         \o ShapesFromSlideUnfiltered(presentation, name, s + 1)

RECURSIVE ShapesFromSlide(_, _, _)
ShapesFromSlide(presentation, name, s) ==
    IF s > Len(presentation) THEN << >>
    ELSE ShapesOfSlide(presentation, name, s, 1)
         \o ShapesFromSlide(presentation, name, s + 1)

\* [shape for slide in prs.slides for shape in slide.shapes if shape.name == name]
\* a shape object is its position in the presentation
get_shapes_by_name(presentation, name) == ShapesFromSlide(presentation, name, 1)

\* the shape with one of its parts as rendered
WithTable(shape, r) == [shape |-> [shape EXCEPT !.table = r.table], err |-> r.err]
WithTextFrame(shape, r) ==
    [shape |-> [shape EXCEPT !.text_frame = r.text_frame], err |-> r.err]
WithChart(shape, r) == [shape |-> [shape EXCEPT !.chart = r.chart], err |-> r.err]

\* the order of get_shape_type: the text frame before the table
RenderShapeTextFirst(value, shape) ==
    IF is_paragraph(shape)
    THEN WithTextFrame(shape, render_paragraph(value, shape.text_frame))
    ELSE IF is_table(shape) THEN WithTable(shape, render_table(value, shape.table))
    ELSE IF is_chart(shape) THEN WithChart(shape, render_chart(value, shape.chart))
    ELSE [shape |-> shape, err |-> "none"]

\* the body of the inner loop of render_ppt: one shape, by its capability
RenderShape(value, shape) ==
    IF is_table(shape) THEN WithTable(shape, render_table(value, shape.table))
    ELSE IF is_paragraph(shape)
    THEN WithTextFrame(shape, render_paragraph(value, shape.text_frame))
    ELSE IF is_chart(shape) THEN WithChart(shape, render_chart(value, shape.chart))
    ELSE [shape |-> shape, err |-> "none"]

\* for shape in found: ..., from the i-th found shape on
RECURSIVE RenderShapesFrom(_, _, _, _)
RenderShapesStep(presentation, value, found, i, r) ==
    IF r.err # "none"
    THEN [prs |-> [presentation EXCEPT ![found[i][1]].shapes[found[i][2]] = r.shape],
          err |-> r.err]
    ELSE RenderShapesFrom(
             [presentation EXCEPT ![found[i][1]].shapes[found[i][2]] = r.shape],
             value, found, i + 1)

RenderShapesFrom(presentation, value, found, i) ==
    IF i > Len(found) THEN [prs |-> presentation, err |-> "none"]
    ELSE RenderShapesStep(presentation, value, found, i,
             RenderShape(value, presentation[found[i][1]].shapes[found[i][2]]))

\* for key, value in values.items():
\*     for shape in get_shapes_by_name(prs, key): ...
\* from the i-th item on
RECURSIVE RenderItemsFrom(_, _, _)
\* a variant that goes on with the next entries after an error and raises the
\* first error at the end
FirstError(rest, err) == [prs |-> rest.prs, err |-> IF err # "none" THEN err ELSE rest.err]
RenderItemsStepGoOn(values, i, r) ==
    FirstError(RenderItemsFrom(r.prs, values, i + 1), r.err)

RenderItemsStep(values, i, r) ==
    IF r.err # "none" THEN r ELSE RenderItemsFrom(r.prs, values, i + 1)

RenderItemsFrom(presentation, values, i) ==
    IF i > Len(values.items) THEN [prs |-> presentation, err |-> "none"]
    ELSE RenderItemsStep(values, i,
             RenderShapesFrom(presentation, values.items[i].v,
                              get_shapes_by_name(presentation, values.items[i].k), 1))

render_ppt(presentation, values) == RenderItemsFrom(presentation, values, 1)

----------------------------------------------------------------------------
(* get_shapes and get_shape_type                                           *)

\* d[k] = v: the value of the key is replaced where the key stands, a new key
\* goes to the end
DictSet(d, k, v) ==
    IF DictHas(d, k)
    THEN PyDict([d.items EXCEPT ![DictIndex(d.items, k, 1)].v = v])
    ELSE PyDict(Append(d.items, [k |-> k, v |-> v]))

\* _get_placeholders: the keywords of every paragraph, in order
RECURSIVE PlaceholdersFrom(_, _)
PlaceholdersFrom(paragraphs, i) ==
    IF i > Len(paragraphs) THEN << >>
    ELSE FindAll(ParagraphText(paragraphs[i])) \o PlaceholdersFrom(paragraphs, i + 1)

_get_placeholders(text_frame) == PlaceholdersFrom(text_frame.paragraphs, 1)

\* {keyword: '' for keyword in placeholders}
RECURSIVE EmptyOfKeywords(_, _, _)
EmptyOfKeywords(keywords, i, d) ==
    IF i > Len(keywords) THEN d
    ELSE EmptyOfKeywords(keywords, i + 1, DictSet(d, keywords[i], PyStr(<< >>)))

EmptyOfPlaceholders(placeholders) ==
    IF placeholders # << >> THEN EmptyOfKeywords(placeholders, 1, PyDict(<< >>))
    ELSE PyStr(<< >>)

\* {'title': "", 'data': [], 'categories': []}
EmptyChartValues ==
    PyDict(<<[k |-> KeyTitle, v |-> PyStr(<< >>)],
             [k |-> KeyData, v |-> PyList(<< >>)],
             [k |-> KeyCategories, v |-> PyList(<< >>)]>>)

_create_empty_values(shape) ==
    IF is_paragraph(shape) THEN EmptyOfPlaceholders(_get_placeholders(shape.text_frame))
    ELSE IF is_table(shape)
    THEN PyList([i \in 1..Len(shape.table.rows) |->
                    PyList([j \in 1..Len(shape.table.rows[i].cells) |-> PyNone])])
    ELSE IF is_chart(shape) THEN EmptyChartValues
    ELSE PyStr(<< >>)

IsUpper(c) == \E k \in 1..Len(UpperCase) : UpperCase[k] = c
IsLower(c) == \E k \in 1..Len(LowerCase) : LowerCase[k] = c

\* str.istitle(): an uppercase letter only after a character without case, a
\* lowercase letter only after a letter, and a letter at least
RECURSIVE IsTitleFrom(_, _, _, _)
IsTitleFrom(text, i, previous_is_cased, cased) ==
    IF i > Len(text) THEN cased
    ELSE IF IsUpper(text[i])
    THEN ~previous_is_cased /\ IsTitleFrom(text, i + 1, TRUE, TRUE)
    ELSE IF IsLower(text[i])
    THEN previous_is_cased /\ IsTitleFrom(text, i + 1, TRUE, TRUE)
    ELSE IsTitleFrom(text, i + 1, FALSE, cased)

IsTitle(text) == IsTitleFrom(text, 1, FALSE, FALSE)

\* set(name.split()): the words between the spaces
IsSpace(c) == c = " "
Words(text) ==
    {SubSeq(text, p[1], p[2]) :
        p \in {p \in (1..Len(text)) \X (1..Len(text)) :
                 /\ p[1] <= p[2]
                 /\ \A k \in p[1]..p[2] : ~IsSpace(text[k])
                 /\ (p[1] = 1 \/ IsSpace(text[p[1] - 1]))
                 /\ (p[2] = Len(text) \/ IsSpace(text[p[2] + 1]))}}

_usual_default_words ==
    { <<"T", "i", "t", "l", "e">>,
      <<"P", "l", "a", "c", "e", "h", "o", "l", "d", "e", "r">>,
      <<"C", "o", "n", "n", "e", "c", "t", "o", "r">>,
      <<"E", "l", "b", "o", "w">>, <<"U", "p">>,
      <<"L", "e", "f", "t">>,
      <<"R", "i", "g", "h", "t">>,
      <<"D", "o", "w", "n">>,
      <<"S", "u", "b", "t", "i", "t", "l", "e">> }

\* a_set == {}: the right-hand side is an empty dict, and a set is equal to no
\* dict, whatever the set holds
SetEqualsEmptyDict(a_set) == FALSE

_is_default_name(name) ==
    IF IsTitle(name) THEN SetEqualsEmptyDict(Words(name) \cap _usual_default_words)
    ELSE FALSE

\* the positions of all the shapes, slide by slide
RECURSIVE AllShapesFrom(_, _)
AllShapesFrom(presentation, s) ==
    IF s > Len(presentation) THEN << >>
    ELSE [i \in 1..Len(presentation[s].shapes) |-> <<s, i>>]
         \o AllShapesFrom(presentation, s + 1)

\* {shape.name: _create_empty_values(shape) for slide ... for shape ... [if ...]}
RECURSIVE GetShapesFrom(_, _, _, _, _)
GetShapesFrom(presentation, get_all, found, i, d) ==
    IF i > Len(found) THEN d
    ELSE IF get_all \/ ~_is_default_name(presentation[found[i][1]].shapes[found[i][2]].name)
    THEN GetShapesFrom(presentation, get_all, found, i + 1,
             DictSet(d, presentation[found[i][1]].shapes[found[i][2]].name,
                     _create_empty_values(presentation[found[i][1]].shapes[found[i][2]])))
    ELSE GetShapesFrom(presentation, get_all, found, i + 1, d)

get_shapes(presentation, get_all) ==
    GetShapesFrom(presentation, get_all, AllShapesFrom(presentation, 1), 1, PyDict(<< >>))

get_shape_type(shape) ==
    IF is_paragraph(shape) THEN "paragraph"
    ELSE IF is_table(shape) THEN "table"
    ELSE IF is_chart(shape) THEN "chart"
    ELSE ""

----------------------------------------------------------------------------
(* The presentations and the values the calls are made on                  *)

MaxLen == 4        \* characters of a generated paragraph text
MaxPars == 2       \* paragraphs of a generated text frame
MaxRows == 2       \* rows of a generated table
MaxCols == 3       \* columns of a generated table
MaxShapes == 3     \* shapes of a generated presentation

Run(text, rPr) == [text |-> text, rPr |-> rPr]
Paragraph(runs) == [runs |-> runs]
TextFrame(paragraphs) == [paragraphs |-> paragraphs]
NoTextFrame == TextFrame(<< >>)
NoTable == [rows |-> << >>]
NoChart == [categories |-> PyNone, series |-> << >>, title |-> PyNone]
Slide(shapes) == [shapes |-> shapes]

TextShape(name, text_frame) ==
    [name |-> name, has_table |-> FALSE, has_text_frame |-> TRUE, has_chart |-> FALSE,
     table |-> NoTable, text_frame |-> text_frame, chart |-> NoChart]
TableShape(name, table) ==
    [name |-> name, has_table |-> TRUE, has_text_frame |-> FALSE, has_chart |-> FALSE,
     table |-> table, text_frame |-> NoTextFrame, chart |-> NoChart]

\* a brace, a letter, a digit and a character that is no word character
Alphabet == {"{", "}", "a", "0", " "}
Texts == UNION {[1..n -> Alphabet] : n \in 0..MaxLen}

\* paragraphs of several runs: none, plain text, a placeholder split over two
\* runs, two placeholders, three runs
SampleParagraphs ==
    { Paragraph(<< >>),
      Paragraph(<<Run(<<"H", "i">>, "r1"), Run(<<" ", "x">>, "r2")>>),
      Paragraph(<<Run(<<"{">>, "r1"), Run(<<"a", "}">>, "r2")>>),
      Paragraph(<<Run(<<"{", "a", "}", " ">>, "r1"), Run(<<"{", "b", "}">>, "r2")>>),
      Paragraph(<<Run(<<"x">>, "r1"), Run(<<"y">>, "r2"), Run(<<"}">>, "r3")>>) }

TextFrames ==
    {TextFrame(<<Paragraph(<<Run(t, "r1")>>)>>) : t \in Texts}
    \cup {TextFrame(ps) : ps \in UNION {[1..n -> SampleParagraphs] : n \in 1..MaxPars}}

NameLower == <<"t">>
NameUpper == <<"T">>
NameAbsent == <<"z">>
Names == {NameLower, NameUpper, NameAbsent}

TextPresentations == {<<Slide(<<TextShape(NameLower, tf)>>)>> : tf \in TextFrames}

\* the values given to render_paragraph
KeyA == <<"a">>
KeyB == <<"b">>
KeyZero == <<"0">>
Item(k, v) == [k |-> k, v |-> v]
Mappings ==
    { PyDict(<< >>),
      PyDict(<<Item(KeyA, PyStr(<<"X">>))>>),
      PyDict(<<Item(KeyA, PyInt(30)), Item(KeyZero, PyStr(<<"Z">>))>>),
      PyDict(<<Item(KeyB, PyStr(<<"{", "a", "}">>)), Item(KeyA, PyStr(<< >>))>>) }
Scalars == {PyStr(<< >>), PyStr(<<"W", "o">>), PyInt(7)}
ParagraphValues == Scalars \cup Mappings

\* tables: every cell starts as the same text frame
CellFrames ==
    { TextFrame(<<Paragraph(<< >>)>>),
      TextFrame(<<Paragraph(<<Run(<<"x">>, "r1"), Run(<<"y">>, "r2")>>),
                  Paragraph(<<Run(<<"{", "a", "}">>, "r1")>>)>>) }
Table(nrows, ncols, tf) ==
    [rows |-> [i \in 1..nrows |-> [cells |-> [j \in 1..ncols |-> [text_frame |-> tf]]]]]
Tables == {Table(r, c, tf) : r \in 0..MaxRows, c \in 0..MaxCols, tf \in CellFrames}
TablePresentations == {<<Slide(<<TableShape(NameLower, t)>>)>> : t \in Tables}

\* the values given to render_table: the cell of row i, column j holds the
\* number 10 i + j, as an int or as its decimal text
CellValue(kind, i, j) ==
    IF kind = "int" THEN PyInt(10 * i + j) ELSE PyStr(IntToText(10 * i + j))
Kinds == {"int", "str"}
\* the list [[1, 2, 3], [4, 5, 6]]
SixNumbers ==
    PyList(<<PyList(<<PyInt(1), PyInt(2), PyInt(3)>>),
             PyList(<<PyInt(4), PyInt(5), PyInt(6)>>)>>)
Lists ==
    {PyList([i \in 1..r |-> PyList([j \in 1..c |-> CellValue(kind, i, j)])]) :
        r \in 0..(MaxRows + 1), c \in 0..(MaxCols + 1), kind \in Kinds}
    \cup {PyList(<<PyInt(1)>>), PyList(<<PyStr(<<"a", "b">>)>>), SixNumbers}
ColumnLabel(kind, j) ==
    IF kind = "int" THEN PyInt(j - 1) ELSE PyStr(<<"c">> \o IntToText(j))
DataFrame(kind, nrows, ncols, header, title) ==
    [type |-> "DataFrame",
     columns |-> [j \in 1..ncols |-> ColumnLabel(kind, j)],
     values |-> [i \in 1..nrows |-> [j \in 1..ncols |-> CellValue(kind, i, j)]],
     index |-> [i \in 1..nrows |-> PyInt(i - 1)],
     header |-> header,
     title |-> title]
DataFrames ==
    {DataFrame(kind, r, c, header, NoAttr) :
        kind \in Kinds, r \in 0..(MaxRows + 1), c \in 0..(MaxCols + 1),
        header \in {NoAttr, PyBool(TRUE), PyBool(FALSE)}}
TableValues == Lists \cup DataFrames \cup Mappings \cup {PyStr(<<"W", "o">>)}


\* presentations of several shapes: two names that differ in case only, shapes
\* of one capability, of several and of none
SampleFrame ==
    TextFrame(<<Paragraph(<<Run(<<"{", "a", "}">>, "r1"), Run(<<"y">>, "r2")>>)>>)
SampleTable == Table(1, 1, SampleFrame)
SampleChart ==
    [categories |-> PyList(<<PyStr(<<"d", "0">>)>>),
     series |-> <<[name |-> PyStr(<<"s", "0">>), values |-> PyList(<<PyInt(1)>>)]>>,
     title |-> PyStr(<<"o", "l", "d">>)]
Shape(name, has_table, has_text_frame, has_chart) ==
    [name |-> name,
     has_table |-> has_table, has_text_frame |-> has_text_frame, has_chart |-> has_chart,
     table |-> IF has_table THEN SampleTable ELSE NoTable,
     text_frame |-> IF has_text_frame THEN SampleFrame ELSE NoTextFrame,
     chart |-> IF has_chart THEN SampleChart ELSE NoChart]
SampleShapes ==
    { Shape(NameLower, FALSE, TRUE, FALSE),
      Shape(NameLower, TRUE, TRUE, TRUE),
      Shape(NameUpper, FALSE, TRUE, TRUE),
      Shape(NameLower, FALSE, FALSE, TRUE),
      Shape(NameUpper, FALSE, FALSE, FALSE) }
ShapeLists == UNION {[1..n -> SampleShapes] : n \in 0..MaxShapes}
\* the shapes on two slides, the first cut of them on the first
TwoSlides(shapes, cut) ==
    LET c == Min(cut, Len(shapes))
    IN  <<Slide([i \in 1..c |-> shapes[i]]),
          Slide([i \in 1..(Len(shapes) - c) |-> shapes[c + i]])>>
Presentations ==
    {<< >>} \cup {TwoSlides(shapes, cut) : shapes \in ShapeLists, cut \in 0..MaxShapes}

\* the requests given to render_ppt: a value every renderer takes, a scalar
\* and a list
ValueAll ==
    PyDict(<<Item(KeyA, PyStr(<<"X">>)),
             Item(KeyCategories, PyList(<<PyStr(<<"d", "1">>), PyStr(<<"d", "2">>)>>)),
             Item(KeyData, PyDict(<<Item(<<"c">>, PyList(<<PyInt(10), PyInt(20)>>))>>)),
             Item(KeyTitle, PyStr(<<"n", "e", "w">>))>>)
ValueList == PyList(<<PyList(<<PyStr(<<"1", "1">>)>>)>>)
ValueScalar == PyStr(<<"W", "o">>)
RequestValues == {ValueAll, ValueList, ValueScalar}
Requests ==
    {PyDict(<< >>)}
    \cup {PyDict(<<Item(k, v)>>) : k \in Names, v \in RequestValues}
    \cup {PyDict(<<Item(ks[1], pair[1]), Item(ks[2], pair[2])>>) :
            ks \in {ks \in Names \X Names : ks[1] # ks[2]},
            pair \in {<<ValueAll, ValueScalar>>, <<ValueScalar, ValueAll>>,
                      <<ValueAll, ValueAll>>}}

\* charts: the chart of a new shape, without data, and a chart with data
ChartShape(name, chart) ==
    [name |-> name, has_table |-> FALSE, has_text_frame |-> FALSE, has_chart |-> TRUE,
     table |-> NoTable, text_frame |-> NoTextFrame, chart |-> chart]
Charts == {NoChart, SampleChart}
ChartPresentations == {<<Slide(<<ChartShape(NameLower, c)>>)>> : c \in Charts}

\* the values given to render_chart. A frame of numbers: the rows are labelled
\* d1, d2, ..., the columns c1, c2, ...
TitleNew == PyStr(<<"n", "e", "w">>)
ChartFrame(nrows, ncols, title) ==
    [type |-> "DataFrame",
     columns |-> [j \in 1..ncols |-> ColumnLabel("str", j)],
     values |-> [i \in 1..nrows |-> [j \in 1..ncols |-> CellValue("int", i, j)]],
     index |-> [i \in 1..nrows |-> PyStr(<<"d">> \o IntToText(i))],
     header |-> NoAttr,
     title |-> title]
ChartFrames ==
    {ChartFrame(r, c, t) :
        r \in 0..(MaxRows + 1), c \in 0..(MaxCols + 1), t \in {NoAttr, TitleNew}}
\* the mapping of a frame: its index under 'categories', its columns by their
\* labels under 'data', its title, if it has one, under 'title'
MappingOfFrame(frame) ==
    PyDict(<<Item(KeyCategories, PyList(frame.index)),
             Item(KeyData,
                  PyDict([j \in 1..Len(frame.columns) |->
                             Item(frame.columns[j].s,
                                  PyList([i \in 1..Len(frame.values) |->
                                             frame.values[i][j]]))]))>>
           \o (IF frame.title = NoAttr THEN << >> ELSE <<Item(KeyTitle, frame.title)>>))
\* {"categories": ["d1", "d2"], "data": {"clicks": [10, 20]}, "title": "T"}
ClicksMapping ==
    PyDict(<<Item(KeyCategories, PyList(<<PyStr(<<"d", "1">>), PyStr(<<"d", "2">>)>>)),
             Item(KeyData,
                  PyDict(<<Item(<<"c", "l", "i", "c", "k", "s">>,
                                PyList(<<PyInt(10), PyInt(20)>>))>>)),
             Item(KeyTitle, PyStr(<<"T">>))>>)
\* mappings render_chart cannot take: a key is missing, the categories or a
\* series cannot be iterated, the data is no mapping
BadMappings ==
    { PyDict(<< >>),
      PyDict(<<Item(KeyCategories, PyList(<<PyStr(<<"d", "1">>)>>))>>),
      PyDict(<<Item(KeyCategories, PyInt(7)), Item(KeyData, PyDict(<< >>))>>),
      PyDict(<<Item(KeyCategories, PyList(<< >>)), Item(KeyData, PyList(<< >>))>>),
      PyDict(<<Item(KeyCategories, PyList(<< >>)),
               Item(KeyData, PyDict(<<Item(<<"c">>, PyInt(7))>>)),
               Item(KeyTitle, TitleNew)>>) }
ChartMappings ==
    {MappingOfFrame(f) : f \in ChartFrames} \cup {ClicksMapping} \cup BadMappings
\* [1, 2, 3] and other values that are neither a dict nor a DataFrame
OneTwoThree == PyList(<<PyInt(1), PyInt(2), PyInt(3)>>)
NoChartValues == {OneTwoThree, PyList(<< >>), PyStr(<<"W", "o">>), PyInt(7), PyNone}
ChartValues == ChartFrames \cup ChartMappings \cup NoChartValues

\* presentations to list the shapes of: names PowerPoint gives ("Title 1",
\* "Up"), a title-cased name without a default word, names in lower case;
\* shapes of one capability, of several and of none
NameTitle == <<"T", "i", "t", "l", "e", " ", "1">>
NameUp == <<"U", "p">>
NameBox == <<"M", "y", " ", "B", "o", "x">>
NameTitleLower == <<"t", "i", "t", "l", "e", " ", "1">>
PlainFrame == TextFrame(<<Paragraph(<<Run(<<"t", "e", "x", "t">>, "r1")>>)>>)
NamedShapes ==
    { Shape(NameTitle, FALSE, FALSE, FALSE),
      Shape(NameTitle, FALSE, TRUE, FALSE),
      Shape(NameUp, FALSE, TRUE, TRUE),
      Shape(NameBox, TRUE, FALSE, FALSE),
      Shape(NameTitleLower, FALSE, FALSE, TRUE),
      Shape(NameLower, TRUE, TRUE, TRUE),
      Shape(NameLower, TRUE, FALSE, TRUE),
      TextShape(NameLower, PlainFrame) }
NamedShapeLists == UNION {[1..n -> NamedShapes] : n \in 0..MaxShapes}
NamedPresentations ==
    {<< >>} \cup {TwoSlides(shapes, cut) : shapes \in NamedShapeLists, cut \in 0..MaxShapes}

----------------------------------------------------------------------------
(* The calls                                                               *)

NoCall == [op |-> "none"]
NoReturn == [err |-> "none"]

\* the call has written the presentation r.prs and returned or raised r.err
Returns(r) == prs' = r.prs /\ ret' = [err |-> r.err]

\* the presentation with the shape at position <<s, n>> as the renderer left it
WithShape(s, n, r) == [prs |-> [prs EXCEPT ![s].shapes[n] = r.shape], err |-> r.err]

\* get_shapes_by_name(prs, name)
GetShapesByName(name) ==
    /\ call = NoCall
    /\ call' = [op |-> "get_shapes_by_name", name |-> name]
    /\ ret' = [err |-> "none", value |-> get_shapes_by_name(prs, name)]
    /\ UNCHANGED <<prs, prs0>>

\* render_ppt(prs, values)
RenderPpt(values) ==
    /\ call = NoCall
    /\ Returns(render_ppt(prs, values))
    /\ call' = [op |-> "render_ppt", values |-> values]
    /\ UNCHANGED prs0

\* render_paragraph(values, shape.text_frame) for the shape at position <<s, n>>
RenderParagraph(values, s, n) ==
    /\ call = NoCall
    /\ s \in 1..Len(prs) /\ n \in 1..Len(prs[s].shapes)
    /\ prs[s].shapes[n].has_text_frame
    /\ Returns(WithShape(s, n, WithTextFrame(prs[s].shapes[n],
                   render_paragraph(values, prs[s].shapes[n].text_frame))))
    /\ call' = [op |-> "render_paragraph", values |-> values, s |-> s, n |-> n]
    /\ UNCHANGED prs0

\* render_table(values, shape.table) for the shape at position <<s, n>>
RenderTable(values, s, n) ==
    /\ call = NoCall
    /\ s \in 1..Len(prs) /\ n \in 1..Len(prs[s].shapes)
    /\ prs[s].shapes[n].has_table
    /\ Returns(WithShape(s, n, WithTable(prs[s].shapes[n],
                   render_table(values, prs[s].shapes[n].table))))
    /\ call' = [op |-> "render_table", values |-> values, s |-> s, n |-> n]
    /\ UNCHANGED prs0

\* render_chart(values, shape.chart) for the shape at position <<s, n>>
RenderChart(values, s, n) ==
    /\ call = NoCall
    /\ s \in 1..Len(prs) /\ n \in 1..Len(prs[s].shapes)
    /\ prs[s].shapes[n].has_chart
    /\ Returns(WithShape(s, n, WithChart(prs[s].shapes[n],
                   render_chart(values, prs[s].shapes[n].chart))))
    /\ call' = [op |-> "render_chart", values |-> values, s |-> s, n |-> n]
    /\ UNCHANGED prs0

\* get_shapes(prs, get_all)
GetShapes(get_all) ==
    /\ call = NoCall
    /\ call' = [op |-> "get_shapes", get_all |-> get_all]
    /\ ret' = [err |-> "none", value |-> get_shapes(prs, get_all)]
    /\ UNCHANGED <<prs, prs0>>

\* get_shape_type(shape) for the shape at position <<s, n>>
GetShapeType(s, n) ==
    /\ call = NoCall
    /\ s \in 1..Len(prs) /\ n \in 1..Len(prs[s].shapes)
    /\ call' = [op |-> "get_shape_type", s |-> s, n |-> n]
    /\ ret' = [err |-> "none", value |-> get_shape_type(prs[s].shapes[n])]
    /\ UNCHANGED <<prs, prs0>>

\* a presentation is opened, then one call is made on it
Opened(presentations) ==
    /\ prs \in presentations
    /\ prs0 = prs
    /\ call = NoCall
    /\ ret = NoReturn

Init == Opened(Presentations)
Next ==
    \/ \E name \in Names : GetShapesByName(name)
    \/ \E values \in Requests : RenderPpt(values)
Spec == Init /\ [][Next]_vars

InitText == Opened(TextPresentations)
NextText == \E values \in ParagraphValues : RenderParagraph(values, 1, 1)
SpecText == InitText /\ [][NextText]_vars

InitTable == Opened(TablePresentations)
NextTable == \E values \in TableValues : RenderTable(values, 1, 1)
SpecTable == InitTable /\ [][NextTable]_vars

InitChart == Opened(ChartPresentations)
NextChart == \E values \in ChartValues : RenderChart(values, 1, 1)
SpecChart == InitChart /\ [][NextChart]_vars

InitNamed == Opened(NamedPresentations)
NextNamed ==
    \/ \E get_all \in BOOLEAN : GetShapes(get_all)
    \/ \E s \in 1..2, n \in 1..MaxShapes : GetShapeType(s, n)
SpecNamed == InitNamed /\ [][NextNamed]_vars

----------------------------------------------------------------------------
(* Properties of get_shapes_by_name and render_ppt (under Spec)            *)

\* the positions of the shapes of a presentation
Positions(presentation) ==
    UNION {{<<s, n>> : n \in 1..Len(presentation[s].shapes)} : s \in 1..Len(presentation)}

ShapeAt(presentation, pos) == presentation[pos[1]].shapes[pos[2]]

\* slide order, then shape order within a slide
Before(p, q) == p[1] < q[1] \/ (p[1] = q[1] /\ p[2] < q[2])

\* the slides and the shapes are those of before the call, in number and in name
SameShapes ==
    /\ Len(prs) = Len(prs0)
    /\ \A s \in 1..Len(prs0) : Len(prs[s].shapes) = Len(prs0[s].shapes)
    /\ \A pos \in Positions(prs0) : ShapeAt(prs, pos).name = ShapeAt(prs0, pos).name

\* C1: get_shapes_by_name returns exactly the shapes whose name equals the
\* given name, character for character, one element per such shape, in slide
\* order and then shape order; with no such shape it returns the empty list;
\* it raises nothing and leaves the presentation as it was.
C1_ShapesByName ==
    call.op = "get_shapes_by_name" =>
        /\ ret.err = "none"
        /\ prs = prs0
        /\ \A k \in 1..Len(ret.value) :
              /\ ret.value[k] \in Positions(prs0)
              /\ ShapeAt(prs0, ret.value[k]).name = call.name
        /\ \A pos \in Positions(prs0) :
              ShapeAt(prs0, pos).name = call.name =>
                  Cardinality({k \in 1..Len(ret.value) : ret.value[k] = pos}) = 1
        /\ \A k \in 1..(Len(ret.value) - 1) : Before(ret.value[k], ret.value[k + 1])
        /\ (\A pos \in Positions(prs0) : ShapeAt(prs0, pos).name # call.name)
              => ret.value = << >>

\* shapes of the name on both slides are returned, and a shape whose name
\* differs from it in case only is not
C1_Witness ==
    /\ call.op = "get_shapes_by_name"
    /\ call.name = NameLower
    /\ Len(ret.value) >= 2
    /\ ret.value[1][1] # ret.value[Len(ret.value)][1]
    /\ \E pos \in Positions(prs0) : ShapeAt(prs0, pos).name = NameUpper

\* the keys of a request
Keys(values) == {values.items[i].k : i \in 1..Len(values.items)}

\* C2: in a call of render_ppt that returns, every shape named by an entry of
\* the request is rendered with the entry's value by one renderer, chosen by
\* the shape's capabilities: the table renderer if it has a table (whatever
\* else it has), else the text renderer if it has a text frame, else the chart
\* renderer if it has a chart; its other parts are left as they were.
C2_DispatchPriority ==
    (call.op = "render_ppt" /\ ret.err = "none") =>
        /\ SameShapes
        /\ \A pos \in Positions(prs0) :
              LET before == ShapeAt(prs0, pos)
                  after == ShapeAt(prs, pos)
              IN  before.name \in Keys(call.values) =>
                  LET value == DictGet(call.values, before.name)
                  IN  /\ before.has_table =>
                            after = [before EXCEPT
                                        !.table = render_table(value, before.table).table]
                      /\ (~before.has_table /\ before.has_text_frame) =>
                            after = [before EXCEPT
                                        !.text_frame =
                                            render_paragraph(value, before.text_frame).text_frame]
                      /\ (~before.has_table /\ ~before.has_text_frame /\ before.has_chart) =>
                            after = [before EXCEPT
                                        !.chart = render_chart(value, before.chart).chart]
                      /\ (~before.has_table /\ ~before.has_text_frame /\ ~before.has_chart) =>
                            after = before

\* two shapes of the entry's name are rendered, one of them with a table, a
\* text frame and a chart: its table is written, its text frame and chart are not
C2_Witness ==
    /\ call.op = "render_ppt"
    /\ ret.err = "none"
    /\ \E p \in Positions(prs0), q \in Positions(prs0) :
          /\ p # q
          /\ ShapeAt(prs0, p).name \in Keys(call.values)
          /\ ShapeAt(prs0, q).name = ShapeAt(prs0, p).name
          /\ ShapeAt(prs0, p).has_table
          /\ ShapeAt(prs0, p).has_text_frame
          /\ ShapeAt(prs0, p).has_chart
          /\ ShapeAt(prs, p).table # ShapeAt(prs0, p).table
          /\ ShapeAt(prs, p).text_frame = ShapeAt(prs0, p).text_frame
          /\ ShapeAt(prs, q) # ShapeAt(prs0, q)

\* C3: render_ppt changes no shape but those named by a key of the request;
\* entries whose name matches no shape raise nothing and change nothing: a
\* call that raises has an entry whose name matches a shape, and a request of
\* absent names only leaves the presentation as it was.
C3_AbsentNamesNoOp ==
    call.op = "render_ppt" =>
        /\ SameShapes
        /\ \A pos \in Positions(prs0) :
              ShapeAt(prs, pos) # ShapeAt(prs0, pos)
                  => ShapeAt(prs0, pos).name \in Keys(call.values)
        /\ (\A pos \in Positions(prs0) : ShapeAt(prs0, pos).name \notin Keys(call.values))
              => (ret.err = "none" /\ prs = prs0)

\* a request with an absent name and a present one: the shape of the present
\* name is written, a shape of another name is in the presentation
C3_Witness ==
    /\ call.op = "render_ppt"
    /\ ret.err = "none"
    /\ NameAbsent \in Keys(call.values)
    /\ \A pos \in Positions(prs0) : ShapeAt(prs0, pos).name # NameAbsent
    /\ \E p \in Positions(prs0), q \in Positions(prs0) :
          /\ ShapeAt(prs0, p).name \in Keys(call.values)
          /\ ShapeAt(prs, p) # ShapeAt(prs0, p)
          /\ ShapeAt(prs0, q).name \notin Keys(call.values)
          /\ ShapeAt(prs0, q).has_text_frame

------------------------------------------------------------\* the shape at the position is named by an entry of the request
Targeted(pos) == ShapeAt(prs0, pos).name \in Keys(call.values)

\* what the loop body of render_ppt does to the shape at the position
Rendered(pos) ==
    RenderShape(DictGet(call.values, ShapeAt(prs0, pos).name), ShapeAt(prs0, pos))

\* render_ppt comes to p before q: p is named by an earlier entry, or by the
\* same entry and stands before q in the presentation
Earlier(p, q) ==
    \/ DictIndex(call.values.items, ShapeAt(prs0, p).name, 1)
           < DictIndex(call.values.items, ShapeAt(prs0, q).name, 1)
    \/ /\ ShapeAt(prs0, p).name = ShapeAt(prs0, q).name
       /\ Before(p, q)

\* the first shape, in the order of render_ppt, whose rendering raises
FirstFailure(f) ==
    /\ f \in Positions(prs0) /\ Targeted(f)
    /\ Rendered(f).err # "none"
    /\ \A p \in Positions(prs0) : (Targeted(p) /\ Earlier(p, f)) => Rendered(p).err = "none"

\* C15: render_ppt raises exactly when the rendering of some named shape
\* raises, and then it raises the error of the first such shape, in the order
\* of the entries and of the shapes of an entry, and stops there: the shapes
\* it came to before are as their renderer wrote them, nothing is rolled
\* back; the failing shape is as its renderer left it; the shapes after it in
\* the same entry and the shapes of later entries are as they were before the
\* call.
C15_AbortOnError ==
    call.op = "render_ppt" =>
        /\ SameShapes
        /\ ret.err # "none" <=> \E f \in Positions(prs0) : FirstFailure(f)
        /\ \A f \in Positions(prs0) :
              FirstFailure(f) =>
                 /\ ret.err = Rendered(f).err
                 /\ ShapeAt(prs, f) = Rendered(f).shape
                 /\ \A p \in Positions(prs0) \ {f} :
                       ShapeAt(prs, p) =
                           IF Targeted(p) /\ Earlier(p, f) THEN Rendered(p).shape
                           ELSE ShapeAt(prs0, p)

\* a request of two entries: the first shape of the first entry is written,
\* the second shape of that entry raises, and the shape of the second entry,
\* which its renderer would have changed, is as before the call
C15_Witness ==
    /\ call.op = "render_ppt"
    /\ ret.err # "none"
    /\ \E p \in Positions(prs0), f \in Positions(prs0), q \in Positions(prs0) :
          /\ FirstFailure(f)
          /\ Targeted(p) /\ Earlier(p, f)
          /\ ShapeAt(prs, p) # ShapeAt(prs0, p)
          /\ Targeted(q) /\ Earlier(f, q)
          /\ ShapeAt(prs0, q).name # ShapeAt(prs0, f).name
          /\ Rendered(q).err = "none"
          /\ Rendered(q).shape # ShapeAt(prs0, q)
          /\ ShapeAt(prs, q) = ShapeAt(prs0, q)

----------------
(* Properties of render_paragraph (under SpecText)                         *)

\* the text frame the call was made on, before and after
FrameBefore == ShapeAt(prs0, <<call.s, call.n>>).text_frame
FrameAfter == ShapeAt(prs, <<call.s, call.n>>).text_frame

\* a {identifier} marker lies at positions i..j of the text: a brace, one or
\* more word characters, a brace
IsMarker(text, i, j) ==
    /\ i \in 1..Len(text) /\ j \in 1..Len(text)
    /\ i + 1 < j
    /\ text[i] = "{" /\ text[j] = "}"
    /\ \A k \in (i + 1)..(j - 1) : IsWordChar(text[k])

MarkerSpans(text) ==
    {p \in (1..Len(text)) \X (1..Len(text)) : IsMarker(text, p[1], p[2])}

\* the identifiers of the markers of a text
MarkerNames(text) == {SubSeq(text, p[1] + 1, p[2] - 1) : p \in MarkerSpans(text)}

\* the text with every marker replaced by the stringified value of its identifier
RECURSIVE SubstitutedFrom(_, _, _)
SubstitutedFrom(text, values, i) ==
    IF i > Len(text) THEN << >>
    ELSE IF \E j \in 1..Len(text) : IsMarker(text, i, j)
    THEN LET j == CHOOSE j \in 1..Len(text) : IsMarker(text, i, j)
         IN  Str(DictGet(values, SubSeq(text, i + 1, j - 1)))
                 \o SubstitutedFrom(text, values, j + 1)
    ELSE <<text[i]>> \o SubstitutedFrom(text, values, i + 1)

Substituted(text, values) == SubstitutedFrom(text, values, 1)

\* C4: render_paragraph with a str value raises nothing and leaves the first
\* paragraph with exactly one run, whose text is the value: the first run if
\* the paragraph had runs, a new run if it had none; the paragraphs after the
\* first are as they were.
C4_ScalarText ==
    (call.op = "render_paragraph" /\ call.values.type = "str") =>
        /\ ret.err = "none"
        /\ Len(FrameAfter.paragraphs) = Len(FrameBefore.paragraphs)
        /\ Len(FrameAfter.paragraphs[1].runs) = 1
        /\ FrameAfter.paragraphs[1].runs[1].text = call.values.s
        /\ Len(FrameBefore.paragraphs[1].runs) > 0 =>
              FrameAfter.paragraphs[1].runs[1].rPr = FrameBefore.paragraphs[1].runs[1].rPr
        /\ \A i \in 2..Len(FrameBefore.paragraphs) :
              FrameAfter.paragraphs[i] = FrameBefore.paragraphs[i]

\* a str is rendered into a frame of two paragraphs whose first has several
\* runs of another text
C4_Witness ==
    /\ call.op = "render_paragraph"
    /\ call.values.type = "str"
    /\ Len(FrameBefore.paragraphs) >= 2
    /\ Len(FrameBefore.paragraphs[1].runs) >= 2
    /\ Len(FrameBefore.paragraphs[2].runs) >= 2
    /\ ParagraphText(FrameBefore.paragraphs[1]) # call.values.s

\* C5: render_paragraph with a mapping leaves every paragraph that has
\* markers, all with keys in the mapping, as a single run whose text is the
\* paragraph's text with each marker replaced by the stringified value of its
\* identifier.
C5_Interpolation ==
    (call.op = "render_paragraph" /\ call.values.type = "dict") =>
        \A i \in 1..Len(FrameBefore.paragraphs) :
            LET text == ParagraphText(FrameBefore.paragraphs[i])
            IN  (MarkerNames(text) # {} /\ MarkerNames(text) \subseteq Keys(call.values)) =>
                    /\ Len(FrameAfter.paragraphs[i].runs) = 1
                    /\ FrameAfter.paragraphs[i].runs[1].text = Substituted(text, call.values)

\* C6: when render_paragraph with a mapping meets a paragraph with a marker
\* whose identifier is no key of the mapping, the call raises and that
\* paragraph, text and runs, is as it was; the error is a KeyError when no
\* paragraph before it has markers.
C6_MissingKey ==
    (call.op = "render_paragraph" /\ call.values.type = "dict") =>
        \A i \in 1..Len(FrameBefore.paragraphs) :
            ~(MarkerNames(ParagraphText(FrameBefore.paragraphs[i])) \subseteq Keys(call.values)) =>
                /\ ret.err # "none"
                /\ FrameAfter.paragraphs[i] = FrameBefore.paragraphs[i]
                /\ (\A h \in 1..(i - 1) :
                        MarkerNames(ParagraphText(FrameBefore.paragraphs[h])) = {})
                      => ret.err = "KeyError"

\* the second paragraph, of two runs, has a marker with no key: the call
\* raises KeyError after the first paragraph was written
C6_Witness ==
    /\ call.op = "render_paragraph"
    /\ call.values.type = "dict"
    /\ ret.err = "KeyError"
    /\ Len(FrameBefore.paragraphs) = 2
    /\ FrameAfter.paragraphs[1] # FrameBefore.paragraphs[1]
    /\ Len(FrameBefore.paragraphs[2].runs) >= 2
    /\ ~(MarkerNames(ParagraphText(FrameBefore.paragraphs[2])) \subseteq Keys(call.values))

\* C7: render_paragraph with a mapping leaves every paragraph without markers,
\* text and runs, as it was, whatever the mapping and the other paragraphs;
\* on a frame without markers it raises nothing and changes nothing.
C7_MarkerFreeUntouched ==
    (call.op = "render_paragraph" /\ call.values.type = "dict") =>
        /\ Len(FrameAfter.paragraphs) = Len(FrameBefore.paragraphs)
        /\ \A i \in 1..Len(FrameBefore.paragraphs) :
              MarkerNames(ParagraphText(FrameBefore.paragraphs[i])) = {} =>
                  FrameAfter.paragraphs[i] = FrameBefore.paragraphs[i]
        /\ (\A i \in 1..Len(FrameBefore.paragraphs) :
                MarkerNames(ParagraphText(FrameBefore.paragraphs[i])) = {})
              => (ret.err = "none" /\ prs = prs0)

\* a frame of a paragraph with a marker, which is written, and a paragraph of
\* several runs without markers
C7_Witness ==
    /\ call.op = "render_paragraph"
    /\ call.values.type = "dict"
    /\ call.values.items # << >>
    /\ ret.err = "none"
    /\ Len(FrameBefore.paragraphs) = 2
    /\ FrameAfter.paragraphs[1] # FrameBefore.paragraphs[1]
    /\ Len(FrameBefore.paragraphs[2].runs) >= 2
    /\ MarkerNames(ParagraphText(FrameBefore.paragraphs[2])) = {}

----------------------------------------------------------------------------
(* Properties of render_table (under SpecTable)                            *)

TableBefore == ShapeAt(prs0, <<call.s, call.n>>).table
TableAfter == ShapeAt(prs, <<call.s, call.n>>).table

\* the text frame of the cell of row i, column j
CellFrame(table, i, j) == table.rows[i].cells[j].text_frame

\* the positions of the cells of a table
CellPositions(table) ==
    UNION {{<<i, j>> : j \in 1..Len(table.rows[i].cells)} : i \in 1..Len(table.rows)}

\* the first paragraph of the cell is one run holding the text, the paragraphs
\* after the first are as they were
CellHolds(i, j, text) ==
    /\ Len(CellFrame(TableAfter, i, j).paragraphs) = Len(CellFrame(TableBefore, i, j).paragraphs)
    /\ Len(CellFrame(TableAfter, i, j).paragraphs[1].runs) = 1
    /\ CellFrame(TableAfter, i, j).paragraphs[1].runs[1].text = text
    /\ \A k \in 2..Len(CellFrame(TableBefore, i, j).paragraphs) :
           CellFrame(TableAfter, i, j).paragraphs[k] = CellFrame(TableBefore, i, j).paragraphs[k]

CellUnchanged(i, j) == CellFrame(TableAfter, i, j) = CellFrame(TableBefore, i, j)

\* the table has the rows and the cells of before the call, in number
SameCells ==
    /\ Len(TableAfter.rows) = Len(TableBefore.rows)
    /\ \A i \in 1..Len(TableBefore.rows) :
           Len(TableAfter.rows[i].cells) = Len(TableBefore.rows[i].cells)

\* a list of lists
IsNested(values) ==
    values.type = "list" /\ \A i \in 1..Len(values.v) : values.v[i].type = "list"

\* a list of lists of str
IsNestedText(values) ==
    IsNested(values)
    /\ \A i \in 1..Len(values.v) : \A j \in 1..Len(values.v[i].v) : values.v[i].v[j].type = "str"

\* C8: render_table with a list of lists raises nothing, and every cell of
\* row i, column j that exists in both the list and the table ends with the
\* text str(values[i][j]): a table of 2 rows and 3 columns given
\* [[1, 2, 3], [4, 5, 6]] ends with "1" in its first cell and "6" in its last.
C8_NestedSequence ==
    (call # NoCall /\ call.op = "render_table" /\ IsNested(call.values))
    => /\ ret.err = "none"
       /\ SameCells
       /\ \A pos \in CellPositions(TableBefore) :
              (pos[1] <= Len(call.values.v) /\ pos[2] <= Len(call.values.v[pos[1]].v))
              => CellHolds(pos[1], pos[2], Str(call.values.v[pos[1]].v[pos[2]]))

\* C9: a difference of size between the value and the table is never an
\* error. For a DataFrame, with the header attribute true, false or absent, and
\* for a list of lists of str, whatever the numbers of rows and of columns of
\* the table (a table of no rows included), render_table raises nothing and
\* writes no cell outside the common positions: the header row and the data
\* rows below it for a DataFrame with a true header, the rows and the columns
\* the list and the table both have otherwise.
C9_SizeMismatch ==
    (call # NoCall /\ call.op = "render_table"
        /\ (call.values.type = "DataFrame" \/ IsNestedText(call.values)))
    => /\ ret.err = "none"
       /\ SameCells
       /\ \A pos \in CellPositions(TableBefore) :
              CellUnchanged(pos[1], pos[2])
              \/ IF call.values.type = "DataFrame"
                 THEN /\ pos[2] <= Len(call.values.columns)
                      /\ IF call.values.header = PyBool(TRUE)
                         THEN pos[1] <= Len(call.values.values) + 1
                         ELSE pos[1] <= Len(call.values.values)
                 ELSE /\ pos[1] <= Len(call.values.v)
                      /\ pos[2] <= Len(call.values.v[pos[1]].v)

\* C10: render_table with a DataFrame, on a table that has a row for the
\* header when the header attribute is true, raises nothing. With a true header
\* the first row of the table receives str() of the column labels, in column
\* order, and the rows after it receive the data rows in order; with the
\* attribute absent or false the rows of the table receive the data rows from
\* the first row on. Every written cell holds str() of its value as one run,
\* and the cells past the labels, the data rows or the data columns are as
\* they were.
C10_FrameRows ==
    (call # NoCall /\ call.op = "render_table" /\ call.values.type = "DataFrame"
        /\ (call.values.header = PyBool(TRUE) => Len(TableBefore.rows) > 0))
    => /\ ret.err = "none"
       /\ SameCells
       /\ \A pos \in CellPositions(TableBefore) :
              IF pos[2] > Len(call.values.columns) THEN CellUnchanged(pos[1], pos[2])
              ELSE IF call.values.header = PyBool(TRUE)
              THEN IF pos[1] = 1
                   THEN CellHolds(1, pos[2], Str(call.values.columns[pos[2]]))
                   ELSE IF pos[1] - 1 <= Len(call.values.values)
                   THEN CellHolds(pos[1], pos[2], Str(call.values.values[pos[1] - 1][pos[2]]))
                   ELSE CellUnchanged(pos[1], pos[2])
              ELSE IF pos[1] <= Len(call.values.values)
                   THEN CellHolds(pos[1], pos[2], Str(call.values.values[pos[1]][pos[2]]))
                   ELSE CellUnchanged(pos[1], pos[2])

\* a DataFrame of ints with a true header was rendered into a table of two
\* rows: the label 0 is in the first row and the number 11 of the first data
\* row is in the second
C10_Witness ==
    /\ call # NoCall /\ call.op = "render_table" /\ call.values.type = "DataFrame"
    /\ call.values.header = PyBool(TRUE)
    /\ Len(call.values.values) >= 2 /\ Len(call.values.columns) >= 2
    /\ Len(TableBefore.rows) = 2 /\ Len(TableBefore.rows[1].cells) >= 1
    /\ call.values.values[1][1] = PyInt(11)
    /\ ret.err = "none"
    /\ CellFrame(TableBefore, 1, 1).paragraphs[1].runs # << >>
    /\ ParagraphText(CellFrame(TableAfter, 1, 1).paragraphs[1]) = <<"0">>
    /\ ParagraphText(CellFrame(TableAfter, 2, 1).paragraphs[1]) = <<"1", "1">>

----------------------------------------------------------------------------
(* Properties of render_chart (under SpecChart)                            *)

ChartBefore == ShapeAt(prs0, <<call.s, call.n>>).chart
ChartAfter == ShapeAt(prs, <<call.s, call.n>>).chart

\* C11: render_chart with a value that is neither a dict nor a DataFrame (the
\* list [1, 2, 3], a str, an int, None) raises NotImplementedError and the
\* chart keeps its categories, its series and its title; so does everything
\* else in the presentation.
C11_UnsupportedValue ==
    (call # NoCall /\ call.op = "render_chart"
        /\ call.values.type \notin {"dict", "DataFrame"})
    => /\ ret.err = "NotImplementedError"
       /\ ChartAfter.categories = ChartBefore.categories
       /\ ChartAfter.series = ChartBefore.series
       /\ ChartAfter.title = ChartBefore.title
       /\ prs = prs0

\* render_chart was given [1, 2, 3] on a chart that has categories, a series
\* and a title
C11_Witness ==
    /\ call # NoCall /\ call.op = "render_chart"
    /\ call.values = OneTwoThree
    /\ ChartBefore = SampleChart
    /\ ret.err = "NotImplementedError"
    /\ ChartAfter = SampleChart

\* C12: a DataFrame and the mapping of the same data (the index under
\* 'categories', the columns by their labels under 'data', the title attribute
\* under 'title' when the frame has one) give the same chart: from the same
\* chart, render_chart with either raises nothing and leaves the same
\* categories, the same series names with the same values and the same title,
\* with a title and without.
C12_SameChart ==
    (call # NoCall /\ call.op = "render_chart")
    => /\ call.values \in ChartFrames
          => /\ ret.err = "none"
             /\ render_chart(MappingOfFrame(call.values), ChartBefore).err = "none"
             /\ ChartAfter = render_chart(MappingOfFrame(call.values), ChartBefore).chart
       /\ \A frame \in ChartFrames :
             call.values = MappingOfFrame(frame)
             => /\ ret.err = "none"
                /\ ChartAfter = render_chart(frame, ChartBefore).chart

\* a frame of two rows and two columns with a title was rendered into a chart
\* that had other data and another title
C12_Witness ==
    /\ call # NoCall /\ call.op = "render_chart"
    /\ call.values = ChartFrame(2, 2, TitleNew)
    /\ ChartBefore = SampleChart
    /\ ret.err = "none"
    /\ ChartAfter.title = TitleNew
    /\ Len(ChartAfter.series) = 2
    /\ ChartAfter.categories = PyList(<<PyStr(<<"d", "1">>), PyStr(<<"d", "2">>)>>)
    /\ ChartAfter.series[2].values = PyList(<<PyInt(12), PyInt(22)>>)

\* a mapping render_chart can take: a list under 'categories', under 'data' a
\* mapping of lists, and a str under 'title' if the key is there
IsChartMapping(values) ==
    /\ values.type = "dict"
    /\ DictHas(values, KeyCategories) /\ DictGet(values, KeyCategories).type = "list"
    /\ DictHas(values, KeyData) /\ DictGet(values, KeyData).type = "dict"
    /\ \A i \in 1..Len(DictGet(values, KeyData).items) :
          DictGet(values, KeyData).items[i].v.type = "list"
    /\ DictHas(values, KeyTitle) => DictGet(values, KeyTitle).type = "str"

\* C13: render_chart with such a mapping raises nothing; the chart ends with
\* the categories of 'categories', in order, with one series per entry of
\* 'data', in the order of the mapping, named by the key and holding the
\* values of the entry, and with the title of 'title' if the key is there, the
\* title it had if not.
C13_MappingChart ==
    (call # NoCall /\ call.op = "render_chart" /\ IsChartMapping(call.values))
    => /\ ret.err = "none"
       /\ ChartAfter.categories = DictGet(call.values, KeyCategories)
       /\ Len(ChartAfter.series) = Len(DictGet(call.values, KeyData).items)
       /\ \A i \in 1..Len(DictGet(call.values, KeyData).items) :
             /\ ChartAfter.series[i].name = PyStr(DictGet(call.values, KeyData).items[i].k)
             /\ ChartAfter.series[i].values = DictGet(call.values, KeyData).items[i].v
       /\ ChartAfter.title = IF DictHas(call.values, KeyTitle)
                             THEN DictGet(call.values, KeyTitle)
                             ELSE ChartBefore.title

\* the mapping with the categories d1, d2, the series clicks and the title T
\* was rendered into a chart that had other data and another title
C13_Witness ==
    /\ call # NoCall /\ call.op = "render_chart"
    /\ call.values = ClicksMapping
    /\ ChartBefore = SampleChart
    /\ ret.err = "none"
    /\ ChartAfter =
          [categories |-> PyList(<<PyStr(<<"d", "1">>), PyStr(<<"d", "2">>)>>),
           series |-> <<[name |-> PyStr(<<"c", "l", "i", "c", "k", "s">>),
                         values |-> PyList(<<PyInt(10), PyInt(20)>>)]>>,
           title |-> PyStr(<<"T">>)]

----------------------------------------------------------------------------
(* Properties of get_shapes and get_shape_type (under SpecNamed)           *)

\* the names of the shapes of the presentation
ShapeNames == {ShapeAt(prs0, pos).name : pos \in Positions(prs0)}

\* the name looks auto-generated: it is title-cased and one of its words is a
\* default word
LooksDefault(name) ==
    IsTitle(name) /\ \E w \in Words(name) : w \in _usual_default_words

\* C14: get_shapes with get_all false returns an entry for every shape name
\* but those that look auto-generated, such as 'Title 1', and no entry for
\* these; with get_all true it returns an entry for every shape name of the
\* presentation.
C14_DefaultNames ==
    (call # NoCall /\ call.op = "get_shapes")
    => /\ ret.err = "none"
       /\ call.get_all => Keys(ret.value) = ShapeNames
       /\ ~call.get_all => Keys(ret.value) = {name \in ShapeNames : ~LooksDefault(name)}

\* what render_ppt does to a shape with a value when the renderer applied is
\* the one of the kind: the table renderer, the text renderer, the chart
\* renderer, or none
RenderedAs(kind, value, shape) ==
    IF kind = "table" THEN WithTable(shape, render_table(value, shape.table))
    ELSE IF kind = "paragraph"
    THEN WithTextFrame(shape, render_paragraph(value, shape.text_frame))
    ELSE IF kind = "chart" THEN WithChart(shape, render_chart(value, shape.chart))
    ELSE [shape |-> shape, err |-> "none"]

\* C16: the kind get_shape_type returns for a shape ('table', 'paragraph',
\* 'chart' or '') names the renderer render_ppt applies to that shape, also
\* for a shape with more than one capability: whatever the value, render_ppt
\* does to the shape what the renderer of that kind does.
C16_KindIsRenderer ==
    (call # NoCall /\ call.op = "get_shape_type")
    => /\ ret.value \in {"table", "paragraph", "chart", ""}
       /\ \A value \in RequestValues :
             RenderShape(value, ShapeAt(prs0, <<call.s, call.n>>))
                 = RenderedAs(ret.value, value, ShapeAt(prs0, <<call.s, call.n>>))

====
